---------------------------- MODULE Spec2Model ----------------------------
(***************************************************************************)
(* Model of the analytics interceptor                                      *)
(* (plugins/interceptors/analytics/analytics.go): the response-capturing   *)
(* wrapper, the request-serving path of Analytics.Handler, the dispatch    *)
(* goroutine sendToGA, and the pure derivations getClientID/getIPAddress.  *)
(*                                                                         *)
(* Text values that the code takes apart (header values, remote address,   *)
(* cookie values, user agent, response bytes) are sequences of             *)
(* one-character strings; opaque names are TLA+ strings.                   *)
(***************************************************************************)
EXTENDS Integers, Sequences, FiniteSets, TLC

(***************************************************************************)
(* Bounds of the model.                                                    *)
(***************************************************************************)
\* calls (WriteHeader / Write) one downstream invocation issues at most
MaxCalls == 2
\* longest forwarding-header value drawn for the derivations
MaxHeaderLen == 3
\* longest host text (between the brackets, for IPv6) drawn for the derivations
MaxHostLen == 2
\* last instant of the model clock
MaxClock == 1

(***************************************************************************)
(* Program constants.                                                      *)
(***************************************************************************)
StatusOK == 200
StatusNoContent == 204
DefaultEndpoint == "https://www.google-analytics.com/mp/collect"

None == "none"
NoErr == "nil"

\* the request instances of one run
Reqs == {"r1", "r2"}

(***************************************************************************)
(* Text helpers.                                                           *)
(***************************************************************************)
\* all sequences over alphabet A of length 0..n
RECURSIVE StrsUpTo(_, _)
StrsUpTo(A, n) ==
    IF n = 0 THEN {<<>>}
    ELSE LET shorter == StrsUpTo(A, n - 1)
         IN  shorter \cup {Append(s, c) : s \in shorter, c \in A}

Take(s, n) == SubSeq(s, 1, n)

IsPrefix(s, t) == Len(s) <= Len(t) /\ SubSeq(t, 1, Len(s)) = s

\* index of the first occurrence of character c in s, 0 when there is none
FirstIndex(s, c) ==
    IF \E i \in 1..Len(s) : s[i] = c
    THEN CHOOSE i \in 1..Len(s) : s[i] = c /\ \A j \in 1..(i - 1) : s[j] # c
    ELSE 0

\* strings.Split(s, sep)[0] for a one-character sep: the text before the
\* first sep, the whole text when sep does not occur ("" gives "")
SplitFirst(s, sep) ==
    IF FirstIndex(s, sep) = 0 THEN s ELSE Take(s, FirstIndex(s, sep) - 1)


(***************************************************************************)
(* The inbound request, as far as the interceptor reads it.                *)
(*   header : header name -> list of values (empty list: header absent)    *)
(*   cookies: the parsed Cookie header, in order                           *)
(*   body   : the inbound stream [present, data, failAt]: absent           *)
(*            (r.Body == nil), or reading yields data, or, failAt >= 0,    *)
(*            fails after failAt bytes                                     *)
(***************************************************************************)
GACookie == "_ga"
HdrXFF == "X-Forwarded-For"
HdrXRI == "X-Real-IP"
HdrUA == "User-Agent"

\* the header names getIPAddress tries, in the order it tries them
ForwardHeaders == <<HdrXFF, HdrXRI>>

\* http.Header.Get: the first value of the key, "" when there is none
HeaderGet(h, key) == IF h[key] = <<>> THEN <<>> ELSE h[key][1]

\* http.Request.UserAgent
UserAgent(r) == HeaderGet(r.header, HdrUA)

\* http.Request.Cookie: the place of the first cookie of that name in the
\* parsed list, 0 when there is none (ErrNoCookie)
Cookie(r, name) ==
    IF \E i \in 1..Len(r.cookies) : r.cookies[i].name = name
    THEN CHOOSE i \in 1..Len(r.cookies) :
             /\ r.cookies[i].name = name
             /\ \A j \in 1..(i - 1) : r.cookies[j].name # name
    ELSE 0

\* the loop of getIPAddress from the k-th forwarding header on
RECURSIVE getIPAddressFrom(_, _)
getIPAddressFrom(r, k) ==
    IF k > Len(ForwardHeaders)
    THEN SplitFirst(r.remoteAddr, ":")
    ELSE IF HeaderGet(r.header, ForwardHeaders[k]) # <<>>
         THEN SplitFirst(HeaderGet(r.header, ForwardHeaders[k]), ",")
         ELSE getIPAddressFrom(r, k + 1)

\* getIPAddress trying X-Real-IP before X-Forwarded-For
getIPAddress_RealIPFirst(r) ==
    IF HeaderGet(r.header, HdrXRI) # <<>>
    THEN SplitFirst(HeaderGet(r.header, HdrXRI), ",")
    ELSE IF HeaderGet(r.header, HdrXFF) # <<>>
         THEN SplitFirst(HeaderGet(r.header, HdrXFF), ",")
         ELSE SplitFirst(r.remoteAddr, ":")

getIPAddress(r) == getIPAddressFrom(r, 1)

\* getClientID that never looks at the cookie
getClientID_NoCookie(r) == getIPAddress(r) \o UserAgent(r)

getClientID(r) ==
    IF Cookie(r, GACookie) # 0
    THEN r.cookies[Cookie(r, GACookie)].value
    ELSE getIPAddress(r) \o UserAgent(r)

(***************************************************************************)
(* The response sink (http.ResponseWriter) and the capturing wrapper.      *)
(***************************************************************************)
\* one call on a response sink, with what it returned
WHCall(code) ==
    [op |-> "WriteHeader", code |-> code, bytes |-> <<>>, n |-> 0, err |-> NoErr]
WCall(b, res) ==
    [op |-> "Write", code |-> 0, bytes |-> b, n |-> res.n, err |-> res.err]

\* what a sink may return for Write(b): all of b, or fewer bytes and an error
SinkResults(b) ==
    {[n |-> Len(b), err |-> NoErr]}
        \cup {[n |-> k, err |-> "EIO"] : k \in 0..(Len(b) - 1)}

\* the real sink before any call
NewSink == [calls |-> <<>>, wroteHeader |-> FALSE, status |-> 0, body |-> <<>>]

\* the real sink's WriteHeader: the first status written is the wire status,
\* a later call changes nothing the caller sees
sinkWriteHeader(s, code) ==
    [s EXCEPT !.calls = Append(@, WHCall(code)),
              !.wroteHeader = TRUE,
              !.status = IF s.wroteHeader THEN @ ELSE code]

\* the real sink's Write: an implicit WriteHeader(200) when none was written,
\* then the bytes it accepted
sinkWrite(s, b, res) ==
    [s EXCEPT !.calls = Append(@, WCall(b, res)),
              !.wroteHeader = TRUE,
              !.status = IF s.wroteHeader THEN @ ELSE StatusOK,
              !.body = @ \o Take(b, res.n)]

\* no wrapper (the zero value), and the wrapper as Handler constructs it
NoWrapper == [made |-> FALSE, statusCode |-> 0, body |-> <<>>]
NewWrapper == [made |-> TRUE, statusCode |-> StatusOK, body |-> <<>>]

\* WriteHeader that records the code without forwarding the call
rwWriteHeader_NoForward(w, s, code) ==
    [rw |-> [w EXCEPT !.statusCode = code], sink |-> s]

\* WriteHeader that keeps the first code it was given
rwWriteHeader_FirstWins(w, s, code) ==
    [rw |-> [w EXCEPT !.statusCode = IF s.wroteHeader THEN @ ELSE code],
     sink |-> sinkWriteHeader(s, code)]

\* responseWriter.WriteHeader on wrapper w over sink s
rwWriteHeader(w, s, code) ==
    [rw |-> [w EXCEPT !.statusCode = code],
     sink |-> sinkWriteHeader(s, code)]

\* Write that buffers only the bytes the sink accepted
rwWrite_BuffersAccepted(w, s, b, res) ==
    [rw |-> [w EXCEPT !.body = @ \o Take(b, res.n)],
     sink |-> sinkWrite(s, b, res),
     ret |-> res]

\* Write that returns the buffer's result instead of the sink's
rwWrite_ReturnsBufferResult(w, s, b, res) ==
    [rw |-> [w EXCEPT !.body = @ \o b],
     sink |-> sinkWrite(s, b, res),
     ret |-> [n |-> Len(b), err |-> NoErr]]

\* responseWriter.Write on wrapper w over sink s, the sink answering res
rwWrite(w, s, b, res) ==
    [rw |-> [w EXCEPT !.body = @ \o b],
     sink |-> sinkWrite(s, b, res),
     ret |-> res]

(***************************************************************************)
(* Requests, configurations and collector answers of the model.            *)
(***************************************************************************)
NoBody == [present |-> FALSE, data |-> <<>>, failAt |-> -1]

MkReq(method, path, cookies, xff, xri, ua, remote, body) ==
    [method |-> method, path |-> path, cookies |-> cookies,
     header |-> [k \in {HdrXFF, HdrXRI, HdrUA} |->
                    IF k = HdrXFF THEN xff ELSE IF k = HdrXRI THEN xri ELSE ua],
     remoteAddr |-> remote, body |-> body]

\* the requests served in the model: the test's request (cookie, no body), a
\* proxied POST with a body, and the same POST whose body stream fails
\* after its first byte
RequestShapes ==
    {MkReq("GET", "/test-path", <<[name |-> GACookie, value |-> <<"i", "d">>]>>,
           <<>>, <<>>, << <<"U">> >>, <<"9", ":", "4">>, NoBody),
     MkReq("POST", "/v1/activate", <<>>,
           << <<"1", ",", "5">> >>, <<>>, << <<"U">> >>, <<"9", ":", "4">>,
           [present |-> TRUE, data |-> <<"x", "y">>, failAt |-> -1]),
     MkReq("POST", "/v1/activate", <<>>,
           << <<"1", ",", "5">> >>, <<>>, << <<"U">> >>, <<"9", ":", "4">>,
           [present |-> TRUE, data |-> <<"x", "y">>, failAt |-> 1])}

\* the configurations a configuration load may leave in the Analytics struct
Configs ==
    [TrackingID : {"", "G-TEST123"}, Enabled : BOOLEAN,
     EndpointURL : {"", "http://collector.test/mp"}]

\* what the downstream handler may pass to WriteHeader and Write
StatusCodes == {200, 404}
Chunks == {<<"a">>, <<"b", "c">>}

\* the status codes the collector may answer with
CollectorStatuses == {200, 201, 204, 500}

\* the body streams of the collector's response: one read to its end, one
\* whose read fails after the first byte
CollectorBodies ==
    {[present |-> TRUE, data |-> <<"e", "r">>, failAt |-> -1],
     [present |-> TRUE, data |-> <<"e", "r">>, failAt |-> 1]}

\* ioutil.ReadAll on a body stream: the bytes read before the end or the
\* failure (the error is dropped)
ReadAll(stream) ==
    IF stream.failAt >= 0 THEN Take(stream.data, stream.failAt) ELSE stream.data

\* ioutil.NopCloser(bytes.NewBuffer(b))
NopCloser(b) == [present |-> TRUE, data |-> b, failAt |-> -1]

(***************************************************************************)
(* State.                                                                  *)
(***************************************************************************)
VARIABLES
    a,          \* the Analytics struct: TrackingID, Enabled, EndpointURL
    built,      \* Handler() has run
    now,        \* the clock, in milliseconds
    pc,         \* per request: where its serving path stands
    req,        \* per request: the inbound request
    rbody,      \* per request: r.Body as the next handler finds it
    sink,       \* per request: the real response sink w
    wrapper,    \* per request: wrappedWriter
    issued,     \* per request: the calls the downstream handler made, with
                \*              what each returned to it
    target,     \* per request: the sink handed to next.ServeHTTP
    invoked,    \* per request: how often next.ServeHTTP was called
    startTime,  \* per request: startTime
    duration,   \* per request: duration
    event,      \* per request: eventData, once built
    disp,       \* per request: the sendToGA goroutine
    posts,      \* per request: outbound POSTs made
    dlog,       \* per request: log.Error records of its goroutine
    diag,       \* per request: log.Info records of its serving path
    dIn,        \* the request a derivation is applied to
    dOut        \* the result of the derivation last applied

serveVars == <<pc, req, rbody, sink, wrapper, issued, target, invoked,
               startTime, duration, event, diag>>
dispVars == <<disp, posts, dlog>>
deriveVars == <<dIn, dOut>>
vars == <<a, built, now, serveVars, dispVars, deriveVars>>

\* reads: the variables the goroutine has read so far
NoTask == [pc |-> "none", event |-> <<>>, url |-> <<>>, status |-> 0,
           resp |-> NoBody, reads |-> {}]
NoResult == [fn |-> "none", val |-> <<>>]

\* the request of the repository's test
TestRequest == CHOOSE q \in RequestShapes : q.method = "GET"

\* the state after construction and a configuration load that left one of
\* cfgs; the requests in active will arrive, each one of shapes;
\* derivations, if any are applied, are applied to one of inputs
InitWith(active, cfgs, shapes, inputs) ==
    /\ a \in cfgs
    /\ built = FALSE
    /\ now = 0
    /\ pc = [r \in Reqs |-> IF r \in active THEN "idle" ELSE "off"]
    /\ req \in {q \in [Reqs -> shapes \cup {TestRequest}] :
                    \A r \in Reqs : IF r \in active THEN q[r] \in shapes
                                                       ELSE q[r] = TestRequest}
    /\ rbody = [r \in Reqs |-> NoBody]
    /\ sink = [r \in Reqs |-> NewSink]
    /\ wrapper = [r \in Reqs |-> NoWrapper]
    /\ issued = [r \in Reqs |-> <<>>]
    /\ target = [r \in Reqs |-> None]
    /\ invoked = [r \in Reqs |-> 0]
    /\ startTime = [r \in Reqs |-> 0]
    /\ duration = [r \in Reqs |-> 0]
    /\ event = [r \in Reqs |-> <<>>]
    /\ disp = [r \in Reqs |-> NoTask]
    /\ posts = [r \in Reqs |-> 0]
    /\ dlog = [r \in Reqs |-> <<>>]
    /\ diag = [r \in Reqs |-> <<>>]
    /\ dIn \in inputs
    /\ dOut = NoResult

Init == InitWith({"r1"}, Configs, RequestShapes, {TestRequest})

(***************************************************************************)
(* Handler construction and the clock.                                     *)
(***************************************************************************)
\* Handler(): the default endpoint is filled in when none is configured, and
\* the middleware is returned; the host may call it again for another route
NewHandler ==
    /\ built' = TRUE
    /\ a' = [a EXCEPT !.EndpointURL = IF @ = "" THEN DefaultEndpoint ELSE @]
    /\ UNCHANGED <<now, serveVars, dispVars, deriveVars>>

\* time passes; the clock is read only by a request between its startTime
\* and its duration, so only then is it made to advance
Tick ==
    /\ \E r \in Reqs : pc[r] \in {"wrap", "readbody", "call", "serving", "elapsed"}
    /\ now < MaxClock
    /\ now' = now + 1
    /\ UNCHANGED <<a, built, serveVars, dispVars, deriveVars>>

(***************************************************************************)
(* The request-serving path: the closure Handler returns.                  *)
(***************************************************************************)
\* the gate skipping only when both conditions hold
Disabled_Both(c) == ~c.Enabled /\ c.TrackingID = ""

\* the gate: analytics is disabled
Disabled(c) == ~c.Enabled \/ c.TrackingID = ""

\* a request arrives and meets the gate: disabled, next.ServeHTTP(w, r) is
\* called at once; enabled, the capturing path starts
Gate(r) ==
    /\ built
    /\ pc[r] = "idle"
    /\ rbody' = [rbody EXCEPT ![r] = req[r].body]
    /\ IF Disabled(a)
       THEN /\ pc' = [pc EXCEPT ![r] = "bypass"]
            /\ target' = [target EXCEPT ![r] = "orig"]
            /\ invoked' = [invoked EXCEPT ![r] = @ + 1]
       ELSE /\ pc' = [pc EXCEPT ![r] = "timing"]
            /\ UNCHANGED <<target, invoked>>
    /\ UNCHANGED <<a, built, now, req, sink, wrapper, issued, startTime,
                   duration, event, diag, dispVars, deriveVars>>

\* startTime := time.Now()
StartTimer(r) ==
    /\ pc[r] = "timing"
    /\ startTime' = [startTime EXCEPT ![r] = now]
    /\ pc' = [pc EXCEPT ![r] = "wrap"]
    /\ UNCHANGED <<a, built, now, req, rbody, sink, wrapper, issued, target,
                   invoked, duration, event, diag, dispVars, deriveVars>>

\* one wrapper kept for all requests: installing it resets what the others
\* captured
Wrap_Shared(r) ==
    /\ pc[r] = "wrap"
    /\ wrapper' = [q \in Reqs |-> NewWrapper]
    /\ pc' = [pc EXCEPT ![r] = "readbody"]
    /\ UNCHANGED <<a, built, now, req, rbody, sink, issued, target, invoked,
                   startTime, duration, event, diag, dispVars, deriveVars>>

\* wrappedWriter := &responseWriter{w, http.StatusOK, &bytes.Buffer{}}
Wrap(r) ==
    /\ pc[r] = "wrap"
    /\ wrapper' = [wrapper EXCEPT ![r] = NewWrapper]
    /\ pc' = [pc EXCEPT ![r] = "readbody"]
    /\ UNCHANGED <<a, built, now, req, rbody, sink, issued, target, invoked,
                   startTime, duration, event, diag, dispVars, deriveVars>>

\* the request body is read whole and r.Body is left drained
ReadBody_NoRestore(r) ==
    /\ pc[r] = "readbody"
    /\ rbody' = [rbody EXCEPT ![r] =
                    IF @.present
                    THEN [present |-> TRUE, data |-> <<>>, failAt |-> -1]
                    ELSE @]
    /\ pc' = [pc EXCEPT ![r] = "call"]
    /\ UNCHANGED <<a, built, now, req, sink, wrapper, issued, target, invoked,
                   startTime, duration, event, diag, dispVars, deriveVars>>

\* the request body is read whole and r.Body replaced by a buffer of what
\* was read
ReadBody(r) ==
    /\ pc[r] = "readbody"
    /\ rbody' = [rbody EXCEPT ![r] =
                    IF @.present THEN NopCloser(ReadAll(@)) ELSE @]
    /\ pc' = [pc EXCEPT ![r] = "call"]
    /\ UNCHANGED <<a, built, now, req, sink, wrapper, issued, target, invoked,
                   startTime, duration, event, diag, dispVars, deriveVars>>

\* next.ServeHTTP(wrappedWriter, r) is entered
CallNext(r) ==
    /\ pc[r] = "call"
    /\ target' = [target EXCEPT ![r] = "wrapper"]
    /\ invoked' = [invoked EXCEPT ![r] = @ + 1]
    /\ pc' = [pc EXCEPT ![r] = "serving"]
    /\ UNCHANGED <<a, built, now, req, rbody, sink, wrapper, issued,
                   startTime, duration, event, diag, dispVars, deriveVars>>

\* the downstream handler calls WriteHeader(code) on the sink it was given
HandlerWriteHeader(r, code) ==
    /\ pc[r] \in {"bypass", "serving"}
    /\ Len(issued[r]) < MaxCalls
    /\ issued' = [issued EXCEPT ![r] = Append(@, WHCall(code))]
    /\ IF target[r] = "wrapper"
       THEN LET o == rwWriteHeader(wrapper[r], sink[r], code)
            IN  /\ wrapper' = [wrapper EXCEPT ![r] = o.rw]
                /\ sink' = [sink EXCEPT ![r] = o.sink]
       ELSE /\ sink' = [sink EXCEPT ![r] = sinkWriteHeader(@, code)]
            /\ UNCHANGED wrapper
    /\ UNCHANGED <<a, built, now, pc, req, rbody, target, invoked, startTime,
                   duration, event, diag, dispVars, deriveVars>>

\* the downstream handler calls Write(b) on the sink it was given; the real
\* sink answers res
HandlerWrite(r, b, res) ==
    /\ pc[r] \in {"bypass", "serving"}
    /\ Len(issued[r]) < MaxCalls
    /\ IF target[r] = "wrapper"
       THEN LET o == rwWrite(wrapper[r], sink[r], b, res)
            IN  /\ wrapper' = [wrapper EXCEPT ![r] = o.rw]
                /\ sink' = [sink EXCEPT ![r] = o.sink]
                /\ issued' = [issued EXCEPT ![r] = Append(@, WCall(b, o.ret))]
       ELSE /\ sink' = [sink EXCEPT ![r] = sinkWrite(@, b, res)]
            /\ issued' = [issued EXCEPT ![r] = Append(@, WCall(b, res))]
            /\ UNCHANGED wrapper
    /\ UNCHANGED <<a, built, now, pc, req, rbody, target, invoked, startTime,
                   duration, event, diag, dispVars, deriveVars>>

\* next.ServeHTTP returns: the bypassing closure returns with it, the
\* capturing one goes on
HandlerReturn(r) ==
    /\ pc[r] \in {"bypass", "serving"}
    /\ pc' = [pc EXCEPT ![r] = IF @ = "bypass" THEN "done" ELSE "elapsed"]
    /\ UNCHANGED <<a, built, now, req, rbody, sink, wrapper, issued, target,
                   invoked, startTime, duration, event, diag, dispVars,
                   deriveVars>>

\* the elapsed time is computed and the goroutine started with no event built
Elapsed_ThenSpawn(r) ==
    /\ pc[r] = "elapsed"
    /\ duration' = [duration EXCEPT ![r] = now - startTime[r]]
    /\ pc' = [pc EXCEPT ![r] = "spawn"]
    /\ UNCHANGED <<a, built, now, req, rbody, sink, wrapper, issued, target,
                   invoked, startTime, event, diag, dispVars, deriveVars>>

\* duration := time.Since(startTime).Milliseconds()
Elapsed(r) ==
    /\ pc[r] = "elapsed"
    /\ duration' = [duration EXCEPT ![r] = now - startTime[r]]
    /\ pc' = [pc EXCEPT ![r] = "build"]
    /\ UNCHANGED <<a, built, now, req, rbody, sink, wrapper, issued, target,
                   invoked, startTime, event, diag, dispVars, deriveVars>>

\* eventData := map[string]interface{}{...}
BuildEvent(r) ==
    /\ pc[r] = "build"
    /\ event' = [event EXCEPT ![r] =
                    <<[client_id |-> getClientID(req[r]),
                       name |-> "api_request",
                       path |-> req[r].path,
                       method |-> req[r].method,
                       status_code |-> wrapper[r].statusCode,
                       response_time_ms |-> duration[r],
                       user_agent |-> UserAgent(req[r]),
                       ip_address |-> getIPAddress(req[r])]>>]
    /\ pc' = [pc EXCEPT ![r] = "spawn"]
    /\ UNCHANGED <<a, built, now, req, rbody, sink, wrapper, issued, target,
                   invoked, startTime, duration, diag, dispVars, deriveVars>>

\* sendToGA called in place: the serving path runs it to its end
GoSend_Synchronous(r) ==
    /\ pc[r] = "spawn"
    /\ \/ /\ disp[r].pc = "none"
          /\ disp' = [disp EXCEPT ![r] = [NoTask EXCEPT !.pc = "spawned",
                                                        !.event = event[r]]]
          /\ UNCHANGED pc
       \/ /\ disp[r].pc \in {"delivered", "failed"}
          /\ pc' = [pc EXCEPT ![r] = "log"]
          /\ UNCHANGED disp
    /\ UNCHANGED <<a, built, now, req, rbody, sink, wrapper, issued, target,
                   invoked, startTime, duration, event, diag, posts, dlog,
                   deriveVars>>

\* go a.sendToGA(eventData): the goroutine is created, the serving path
\* goes on without it
GoSend(r) ==
    /\ pc[r] = "spawn"
    /\ disp' = [disp EXCEPT ![r] = [NoTask EXCEPT !.pc = "spawned",
                                                  !.event = event[r]]]
    /\ pc' = [pc EXCEPT ![r] = "log"]
    /\ UNCHANGED <<a, built, now, req, rbody, sink, wrapper, issued, target,
                   invoked, startTime, duration, event, diag, posts, dlog,
                   deriveVars>>

\* the record written only once the collector has taken the event
LogInfo_AfterDelivery(r) ==
    /\ pc[r] = "log"
    /\ diag' = [diag EXCEPT ![r] =
                   IF disp[r].pc = "delivered"
                   THEN Append(@, [path |-> req[r].path, method |-> req[r].method,
                                   status |-> wrapper[r].statusCode,
                                   duration_ms |-> duration[r]])
                   ELSE @]
    /\ pc' = [pc EXCEPT ![r] = "done"]
    /\ UNCHANGED <<a, built, now, req, rbody, sink, wrapper, issued, target,
                   invoked, startTime, duration, event, dispVars, deriveVars>>

\* log.Info()...Msg("Analytics tracking sent"), and the closure returns
LogInfo(r) ==
    /\ pc[r] = "log"
    /\ diag' = [diag EXCEPT ![r] =
                   Append(@, [path |-> req[r].path, method |-> req[r].method,
                              status |-> wrapper[r].statusCode,
                              duration_ms |-> duration[r]])]
    /\ pc' = [pc EXCEPT ![r] = "done"]
    /\ UNCHANGED <<a, built, now, req, rbody, sink, wrapper, issued, target,
                   invoked, startTime, duration, event, dispVars, deriveVars>>

(***************************************************************************)
(* The dispatch goroutine: sendToGA.                                       *)
(***************************************************************************)
\* what sendToGA reads: its argument and two fields of its receiver
SendReads == {"eventData", "a.EndpointURL", "a.TrackingID"}

ErrRecord(msg, status, body) == [msg |-> msg, status |-> status, body |-> body]

\* sendToGA that resets the shared configuration to the default endpoint
\* before it builds its url
Marshal_ResetsEndpoint(r, ok) ==
    /\ disp[r].pc = "spawned"
    /\ a' = [a EXCEPT !.EndpointURL = DefaultEndpoint]
    /\ IF ok
       THEN /\ disp' = [disp EXCEPT ![r].pc = "marshalled",
                                    ![r].url = <<[endpoint |-> DefaultEndpoint,
                                                  measurement_id |-> a.TrackingID,
                                                  api_secret |-> "YOUR_API_SECRET"]>>,
                                    ![r].reads = SendReads]
            /\ UNCHANGED dlog
       ELSE /\ disp' = [disp EXCEPT ![r].pc = "failed",
                                    ![r].url = <<[endpoint |-> DefaultEndpoint,
                                                  measurement_id |-> a.TrackingID,
                                                  api_secret |-> "YOUR_API_SECRET"]>>,
                                    ![r].reads = SendReads]
            /\ dlog' = [dlog EXCEPT ![r] =
                  Append(@, ErrRecord("Failed to marshal analytics data", 0, <<>>))]
    /\ UNCHANGED <<built, now, serveVars, posts, deriveVars>>

\* the url is built from the configuration and the event is marshalled;
\* a marshalling error is logged and ends the goroutine
Marshal(r, ok) ==
    /\ disp[r].pc = "spawned"
    /\ IF ok
       THEN /\ disp' = [disp EXCEPT ![r].pc = "marshalled",
                                    ![r].url = <<[endpoint |-> a.EndpointURL,
                                                  measurement_id |-> a.TrackingID,
                                                  api_secret |-> "YOUR_API_SECRET"]>>,
                                    ![r].reads = SendReads]
            /\ UNCHANGED dlog
       ELSE /\ disp' = [disp EXCEPT ![r].pc = "failed",
                                    ![r].url = <<[endpoint |-> a.EndpointURL,
                                                  measurement_id |-> a.TrackingID,
                                                  api_secret |-> "YOUR_API_SECRET"]>>,
                                    ![r].reads = SendReads]
            /\ dlog' = [dlog EXCEPT ![r] =
                  Append(@, ErrRecord("Failed to marshal analytics data", 0, <<>>))]
    /\ UNCHANGED <<a, built, now, serveVars, posts, deriveVars>>

\* http.NewRequest("POST", url, ...); an error is logged and ends the
\* goroutine
NewRequest(r, ok) ==
    /\ disp[r].pc = "marshalled"
    /\ IF ok
       THEN /\ disp' = [disp EXCEPT ![r].pc = "ready"]
            /\ UNCHANGED dlog
       ELSE /\ disp' = [disp EXCEPT ![r].pc = "failed"]
            /\ dlog' = [dlog EXCEPT ![r] =
                  Append(@, ErrRecord("Failed to create analytics request", 0, <<>>))]
    /\ UNCHANGED <<a, built, now, serveVars, posts, deriveVars>>

\* client.Do(req) sends the POST
Do(r) ==
    /\ disp[r].pc = "ready"
    /\ disp' = [disp EXCEPT ![r].pc = "posting"]
    /\ posts' = [posts EXCEPT ![r] = @ + 1]
    /\ UNCHANGED <<a, built, now, serveVars, dlog, deriveVars>>

\* client.Do without a timeout, on a collector that never answers
DoReturn_Never(r, outcome, rb) ==
    /\ disp[r].pc = "posting"
    /\ UNCHANGED vars

\* client.Do whose transport error sends the POST again
DoReturn_Retry(r, outcome, rb) ==
    /\ disp[r].pc = "posting"
    /\ IF outcome = 0
       THEN /\ disp' = [disp EXCEPT ![r].pc = "ready"]
            /\ dlog' = [dlog EXCEPT ![r] =
                  Append(@, ErrRecord("Failed to send analytics data", 0, <<>>))]
       ELSE /\ disp' = [disp EXCEPT ![r].pc = "responded",
                                    ![r].status = outcome,
                                    ![r].resp = rb]
            /\ UNCHANGED dlog
    /\ UNCHANGED <<a, built, now, serveVars, posts, deriveVars>>

\* client.Do returns, at the latest when its timeout expires: a transport
\* error (logged, the goroutine ends) or the collector's response
DoReturn(r, outcome, rb) ==
    /\ disp[r].pc = "posting"
    /\ IF outcome = 0
       THEN /\ disp' = [disp EXCEPT ![r].pc = "failed"]
            /\ dlog' = [dlog EXCEPT ![r] =
                  Append(@, ErrRecord("Failed to send analytics data", 0, <<>>))]
       ELSE /\ disp' = [disp EXCEPT ![r].pc = "responded",
                                    ![r].status = outcome,
                                    ![r].resp = rb]
            /\ UNCHANGED dlog
    /\ UNCHANGED <<a, built, now, serveVars, posts, deriveVars>>

\* the status check that also answers the caller with the collector's error
CheckStatus_AnswersCaller(r) ==
    /\ disp[r].pc = "responded"
    /\ IF disp[r].status # StatusOK /\ disp[r].status # StatusNoContent
       THEN /\ disp' = [disp EXCEPT ![r].pc = "failed"]
            /\ dlog' = [dlog EXCEPT ![r] =
                  Append(@, ErrRecord("Analytics request failed",
                                      disp[r].status, ReadAll(disp[r].resp)))]
            /\ sink' = [sink EXCEPT ![r] = sinkWriteHeader(@, disp[r].status)]
       ELSE /\ disp' = [disp EXCEPT ![r].pc = "delivered"]
            /\ UNCHANGED <<dlog, sink>>
    /\ UNCHANGED <<a, built, now, pc, req, rbody, wrapper, issued, target,
                   invoked, startTime, duration, event, diag, posts, deriveVars>>

\* the status check that takes every 2xx status for a success
CheckStatus_Any2xx(r) ==
    /\ disp[r].pc = "responded"
    /\ IF disp[r].status < 200 \/ disp[r].status > 299
       THEN /\ disp' = [disp EXCEPT ![r].pc = "failed"]
            /\ dlog' = [dlog EXCEPT ![r] =
                  Append(@, ErrRecord("Analytics request failed",
                                      disp[r].status, ReadAll(disp[r].resp)))]
       ELSE /\ disp' = [disp EXCEPT ![r].pc = "delivered"]
            /\ UNCHANGED dlog
    /\ UNCHANGED <<a, built, now, serveVars, posts, deriveVars>>

\* the response's status is checked: anything but 200 and 204 is logged with
\* the response body, as far as it could be read; the goroutine ends
CheckStatus(r) ==
    /\ disp[r].pc = "responded"
    /\ IF disp[r].status # StatusOK /\ disp[r].status # StatusNoContent
       THEN /\ disp' = [disp EXCEPT ![r].pc = "failed"]
            /\ dlog' = [dlog EXCEPT ![r] =
                  Append(@, ErrRecord("Analytics request failed",
                                      disp[r].status, ReadAll(disp[r].resp)))]
       ELSE /\ disp' = [disp EXCEPT ![r].pc = "delivered"]
            /\ UNCHANGED dlog
    /\ UNCHANGED <<a, built, now, serveVars, posts, deriveVars>>

(***************************************************************************)
(* The system.                                                             *)
(***************************************************************************)
\* the steps of request r's serving path once the downstream handler has
\* returned
AfterNext(r) == Elapsed(r) \/ BuildEvent(r) \/ GoSend(r) \/ LogInfo(r)

\* the steps of request r's dispatch goroutine
DispatchStep(r) ==
    \/ \E ok \in BOOLEAN : Marshal(r, ok)
    \/ \E ok \in BOOLEAN : NewRequest(r, ok)
    \/ Do(r)
    \/ \E outcome \in {0} \cup CollectorStatuses, rb \in CollectorBodies :
          DoReturn(r, outcome, rb)
    \/ CheckStatus(r)

Next ==
    \/ NewHandler
    \/ Tick
    \/ \E r \in Reqs : Gate(r)
    \/ \E r \in Reqs : StartTimer(r)
    \/ \E r \in Reqs : Wrap(r)
    \/ \E r \in Reqs : ReadBody(r)
    \/ \E r \in Reqs : CallNext(r)
    \/ \E r \in Reqs, code \in StatusCodes : HandlerWriteHeader(r, code)
    \/ \E r \in Reqs, b \in Chunks : \E res \in SinkResults(b) : HandlerWrite(r, b, res)
    \/ \E r \in Reqs : HandlerReturn(r)
    \/ \E r \in Reqs : Elapsed(r)
    \/ \E r \in Reqs : BuildEvent(r)
    \/ \E r \in Reqs : GoSend(r)
    \/ \E r \in Reqs : LogInfo(r)
    \/ \E r \in Reqs, ok \in BOOLEAN : Marshal(r, ok)
    \/ \E r \in Reqs, ok \in BOOLEAN : NewRequest(r, ok)
    \/ \E r \in Reqs : Do(r)
    \/ \E r \in Reqs, outcome \in {0} \cup CollectorStatuses,
          rb \in CollectorBodies : DoReturn(r, outcome, rb)
    \/ \E r \in Reqs : CheckStatus(r)

Spec == Init /\ [][Next]_vars

\* the test's request served under every configuration
InitServing == InitWith({"r1"}, Configs, {TestRequest}, {TestRequest})

\* the serving goroutine is scheduled; nothing is assumed of the dispatch
\* goroutines, the collector or the downstream handler
SpecServing ==
    InitServing /\ [][Next]_vars /\ \A r \in Reqs : WF_vars(AfterNext(r))

\* every dispatch goroutine that can take a step eventually takes one,
\* whatever its request's serving path does; client.Do returns because the
\* client's Timeout bounds the whole exchange
SpecDispatch ==
    InitServing /\ [][Next]_vars /\ \A r \in Reqs : WF_vars(DispatchStep(r))

(***************************************************************************)
(* Two requests served at once by one enabled interceptor.                 *)
(***************************************************************************)
EnabledConfigs ==
    {c \in Configs : c.Enabled /\ c.TrackingID # "" /\ c.EndpointURL = ""}

\* the status the downstream handler of each request sets, and what it writes
OwnStatus(r) == IF r = "r1" THEN 404 ELSE 200
OwnChunk(r) == IF r = "r1" THEN <<"a">> ELSE <<"b", "c">>

InitConc == InitWith(Reqs, EnabledConfigs, {TestRequest}, {TestRequest})

\* the serving paths of the requests, interleaved step by step; each
\* downstream handler sets its own status and writes its own chunk, which
\* the sink takes whole
NextConc ==
    \/ NewHandler
    \/ Tick
    \/ \E r \in Reqs : Gate(r)
    \/ \E r \in Reqs : StartTimer(r)
    \/ \E r \in Reqs : Wrap(r)
    \/ \E r \in Reqs : ReadBody(r)
    \/ \E r \in Reqs : CallNext(r)
    \/ \E r \in Reqs : HandlerWriteHeader(r, OwnStatus(r))
    \/ \E r \in Reqs : HandlerWrite(r, OwnChunk(r),
                                     [n |-> Len(OwnChunk(r)), err |-> NoErr])
    \/ \E r \in Reqs : HandlerReturn(r)
    \/ \E r \in Reqs : Elapsed(r)
    \/ \E r \in Reqs : BuildEvent(r)
    \/ \E r \in Reqs : GoSend(r)
    \/ \E r \in Reqs : LogInfo(r)

SpecConc == InitConc /\ [][NextConc]_vars

(***************************************************************************)
(* The derivations getIPAddress and getClientID applied to drawn requests. *)
(***************************************************************************)
\* header values: text over digits and the comma
HeaderTexts == StrsUpTo({"1", "5", ","}, MaxHeaderLen)

\* X-Forwarded-For: absent, one value (possibly empty), or two header lines
\* of which the first is empty
XFFValues ==
    {<<>>} \cup {<<v>> : v \in HeaderTexts} \cup {<< <<>>, <<"5">> >>}

\* X-Real-IP: absent, empty, a list
XRIValues == {<<>>, << <<>> >>, << <<"2", ",", "1">> >>}

UAValues == {<<>>, << <<"U", "A">> >>}

\* the parsed cookies: none, the analytics cookie (possibly empty, possibly
\* after another cookie, possibly twice), another cookie only
CookieJars ==
    LET ga(v) == [name |-> GACookie, value |-> v]
        sid == [name |-> "sid", value |-> <<"x">>]
    IN  {<<>>, <<ga(<<"a", "b", "c">>)>>, <<ga(<<>>)>>, <<sid>>,
         <<sid, ga(<<"a", "b", "c">>)>>, <<ga(<<"a", "b", "c">>), ga(<<"z">>)>>}

\* remote addresses host:port, the host an IPv4-like text or a bracketed
\* IPv6-like text
Hosts ==
    (StrsUpTo({"9", "."}, MaxHostLen) \ {<<>>})
        \cup {<<"[">> \o h \o <<"]">> :
                 h \in StrsUpTo({"1", ":"}, MaxHostLen) \ {<<>>}}
Ports == {<<"8", "0">>}
RemoteAddrs == {h \o <<":">> \o p : h \in Hosts, p \in Ports}

DeriveInputs ==
    {MkReq("GET", "/", c, xff, xri, ua, ra, NoBody) :
        c \in CookieJars, xff \in XFFValues, xri \in XRIValues,
        ua \in UAValues, ra \in RemoteAddrs}

ApplyGetIPAddress ==
    /\ dOut' = [fn |-> "getIPAddress", val |-> getIPAddress(dIn)]
    /\ UNCHANGED <<a, built, now, serveVars, dispVars, dIn>>

ApplyGetClientID ==
    /\ dOut' = [fn |-> "getClientID", val |-> getClientID(dIn)]
    /\ UNCHANGED <<a, built, now, serveVars, dispVars, dIn>>

InitDerive ==
    InitWith({}, {c \in Configs : ~c.Enabled /\ c.TrackingID = "" /\ c.EndpointURL = ""},
             {TestRequest}, DeriveInputs)

NextDerive == ApplyGetIPAddress \/ ApplyGetClientID

SpecDerive == InitDerive /\ [][NextDerive]_vars

(***************************************************************************)
(* What a sequence of downstream calls amounts to, read off the calls      *)
(* themselves.                                                             *)
(***************************************************************************)
\* a call without what it returned
Args(c) == [op |-> c.op, code |-> c.code, bytes |-> c.bytes]
ArgsOf(calls) == [i \in 1..Len(calls) |-> Args(calls[i])]

\* the code of the last WriteHeader among calls, 200 when there is none
LastStatus(calls) ==
    LET whs == {i \in 1..Len(calls) : calls[i].op = "WriteHeader"}
    IN  IF whs = {} THEN 200
        ELSE calls[CHOOSE i \in whs : \A j \in whs : j <= i].code

\* the bytes given to Write, in call order
RECURSIVE ConcatWrites(_)
ConcatWrites(calls) ==
    IF calls = <<>> THEN <<>>
    ELSE ConcatWrites(SubSeq(calls, 1, Len(calls) - 1))
             \o calls[Len(calls)].bytes

\* the status a bare sink puts on the wire for calls: that of the first
\* call (a Write implies 200), 0 while nothing was called
WireStatus(calls) ==
    IF calls = <<>> THEN 0
    ELSE IF calls[1].op = "WriteHeader" THEN calls[1].code ELSE 200

\* the bytes a bare sink accepted for calls
RECURSIVE WireBody(_)
WireBody(calls) ==
    IF calls = <<>> THEN <<>>
    ELSE WireBody(SubSeq(calls, 1, Len(calls) - 1))
             \o SubSeq(calls[Len(calls)].bytes, 1, calls[Len(calls)].n)

\* request r has passed the gate
Gated(r) == pc[r] \notin {"off", "idle"}

(***************************************************************************)
(* C1  A request handled while Enabled is false or TrackingID is empty:    *)
(* next.ServeHTTP is invoked exactly once, with the original sink; there   *)
(* is no wrapper and no buffer, no event, no dispatch goroutine and no     *)
(* outbound POST for it.                                                   *)
(***************************************************************************)
C1_DisabledBypass ==
    \A r \in Reqs :
        (Gated(r) /\ (~a.Enabled \/ a.TrackingID = "")) =>
            /\ invoked[r] = 1
            /\ target[r] = "orig"
            /\ wrapper[r] = NoWrapper
            /\ event[r] = <<>>
            /\ disp[r] = NoTask
            /\ posts[r] = 0
            /\ ArgsOf(sink[r].calls) = ArgsOf(issued[r])

\* the test's configuration (disabled, tracking id set): the request ended
\* after two calls of the downstream handler
C1_Witness ==
    \E r \in Reqs :
        /\ ~a.Enabled /\ a.TrackingID = "G-TEST123"
        /\ pc[r] = "done"
        /\ Len(issued[r]) = 2
        /\ sink[r].status = 200 /\ sink[r].body = <<"a">>

(***************************************************************************)
(* C2  An enabled request: the real sink receives exactly the calls the    *)
(* downstream handler issued on the wrapper, same arguments, same order,   *)
(* and the status and body the caller sees are those a bare sink would     *)
(* show for these calls.                                                   *)
(***************************************************************************)
C2_Transparent ==
    \A r \in Reqs :
        target[r] = "wrapper" =>
            /\ ArgsOf(sink[r].calls) = ArgsOf(issued[r])
            /\ sink[r].status = WireStatus(issued[r])
            /\ sink[r].body = WireBody(issued[r])

C2_Witness ==
    \E r \in Reqs :
        /\ target[r] = "wrapper"
        /\ pc[r] = "done"
        /\ ArgsOf(issued[r]) = <<Args(WHCall(404)),
                                 Args(WCall(<<"b", "c">>, [n |-> 2, err |-> NoErr]))>>
        /\ sink[r].status = 404 /\ sink[r].body = <<"b", "c">>

(***************************************************************************)
(* C3  Whatever a dispatch goroutine meets (marshalling error, request     *)
(* error, transport error or timeout, any collector status), none of its   *)
(* steps changes what the real sink received, what the downstream handler  *)
(* got back, or where the serving path stands.                             *)
(***************************************************************************)
C3_DispatchContained ==
    [][\A r \in Reqs :
          (disp[r].pc # "none" /\ disp'[r] # disp[r]) =>
              /\ sink' = sink
              /\ issued' = issued
              /\ wrapper' = wrapper
              /\ pc' = pc
              /\ diag' = diag]_vars

\* the collector answered 500 and the failure was logged; the caller has
\* its 200 and its body
C3_Witness ==
    \E r \in Reqs :
        /\ pc[r] = "done"
        /\ disp[r].pc = "failed" /\ disp[r].status = 500
        /\ Len(dlog[r]) = 1
        /\ sink[r].status = 200 /\ sink[r].body = <<"a">>

(***************************************************************************)
(* C4  Once the downstream handler has returned, the serving path reaches  *)
(* its end whether or not the dispatch goroutine ever runs or ends.        *)
(***************************************************************************)
C4_ServingCompletes ==
    \A r \in Reqs : (pc[r] = "elapsed") ~> (pc[r] = "done")

\* the serving path is done and its goroutine has not taken a step
C4_Witness ==
    \E r \in Reqs : pc[r] = "done" /\ disp[r].pc = "spawned"

(***************************************************************************)
(* C5  The wrapper's statusCode is the code of the last WriteHeader call,  *)
(* or 200 when there was none; Write calls do not change it.               *)
(***************************************************************************)
C5_LastStatus ==
    \A r \in Reqs :
        wrapper[r].made => wrapper[r].statusCode = LastStatus(issued[r])

C5_Witness ==
    \E r \in Reqs :
        /\ wrapper[r].made
        /\ ArgsOf(issued[r]) = <<Args(WHCall(404)), Args(WHCall(200))>>
        /\ wrapper[r].statusCode = 200

(***************************************************************************)
(* C6  The wrapper's buffer is the concatenation, in call order, of the    *)
(* bytes of all Write calls so far, whatever the sink returned for them,   *)
(* and each step leaves the old buffer a prefix of the new one.            *)
(***************************************************************************)
C6_BodyBuffer ==
    /\ [](\A r \in Reqs :
             wrapper[r].made => wrapper[r].body = ConcatWrites(issued[r]))
    /\ [][\A r \in Reqs :
             wrapper[r].made => IsPrefix(wrapper[r].body, wrapper'[r].body)]_vars

\* two writes, the second one cut short by the sink
C6_Witness ==
    \E r \in Reqs :
        /\ wrapper[r].made
        /\ wrapper[r].body = <<"a", "b", "c">>
        /\ sink[r].body = <<"a", "b">>

(***************************************************************************)
(* C7  Each Write on the wrapper returns the byte count and the error the  *)
(* real sink returned for the same bytes.                                  *)
(***************************************************************************)
C7_ReturnsSinkResult ==
    \A r \in Reqs :
        target[r] = "wrapper" =>
            /\ Len(issued[r]) = Len(sink[r].calls)
            /\ \A i \in 1..Len(issued[r]) :
                  /\ issued[r][i].n = sink[r].calls[i].n
                  /\ issued[r][i].err = sink[r].calls[i].err

\* a short write with an error reached the downstream handler
C7_Witness ==
    \E r \in Reqs :
        /\ target[r] = "wrapper"
        /\ \E i \in 1..Len(issued[r]) :
              /\ issued[r][i].bytes = <<"b", "c">>
              /\ issued[r][i].n = 1
              /\ issued[r][i].err = "EIO"

(***************************************************************************)
(* Reading the derivations' inputs.                                        *)
(***************************************************************************)
\* v is the first entry of the comma-separated list s
IsFirstEntry(v, s) ==
    /\ IsPrefix(v, s)
    /\ \A i \in 1..Len(v) : v[i] # ","
    /\ Len(v) = Len(s) \/ s[Len(v) + 1] = ","

\* the text of s before its last colon: the host of host:port
BeforeLastColon(s) ==
    LET cs == {i \in 1..Len(s) : s[i] = ":"}
    IN  SubSeq(s, 1, (CHOOSE i \in cs : \A j \in cs : j <= i) - 1)

\* the header is on the request / its (first) value is not empty
Present(r, k) == r.header[k] # <<>>
NonEmpty(r, k) == r.header[k] # <<>> /\ r.header[k][1] # <<>>

(***************************************************************************)
(* C8  The client id is the value of the request's (first) _ga cookie      *)
(* whenever it carries one, whatever its headers and remote address; with  *)
(* no such cookie it is the derived IP address followed by the user agent. *)
(***************************************************************************)
C8_ClientID ==
    dOut.fn = "getClientID" =>
        LET gas == {i \in 1..Len(dIn.cookies) : dIn.cookies[i].name = "_ga"}
        IN  IF gas # {}
            THEN \E i \in gas :
                    /\ \A j \in gas : i <= j
                    /\ dOut.val = dIn.cookies[i].value
            ELSE dOut.val = getIPAddress(dIn) \o
                    (IF Present(dIn, HdrUA) THEN dIn.header[HdrUA][1] ELSE <<>>)

\* the cookie wins over a forwarding header and a user agent
C8_Witness ==
    /\ dOut = [fn |-> "getClientID", val |-> <<"a", "b", "c">>]
    /\ dIn.cookies = <<[name |-> "_ga", value |-> <<"a", "b", "c">>]>>
    /\ dIn.header[HdrXFF] = << <<"1", ",", "5">> >>
    /\ dIn.header[HdrUA] = << <<"U", "A">> >>

(***************************************************************************)
(* C9  As claimed: the first forwarding header present on the request, in  *)
(* the order X-Forwarded-For, X-Real-IP, decides, and the derived IP is    *)
(* the first entry of its value.                                           *)
(***************************************************************************)
C9_FirstPresentHeader ==
    dOut.fn = "getIPAddress" =>
        /\ Present(dIn, HdrXFF) =>
              IsFirstEntry(dOut.val, dIn.header[HdrXFF][1])
        /\ (~Present(dIn, HdrXFF) /\ Present(dIn, HdrXRI)) =>
              IsFirstEntry(dOut.val, dIn.header[HdrXRI][1])

(***************************************************************************)
(* C9  As amended: the first forwarding header whose (first) value is not  *)
(* empty, in the order X-Forwarded-For, X-Real-IP, decides, and the        *)
(* derived IP is the first entry of that value.                            *)
(***************************************************************************)
C9_FirstNonEmptyHeader ==
    dOut.fn = "getIPAddress" =>
        /\ NonEmpty(dIn, HdrXFF) =>
              IsFirstEntry(dOut.val, dIn.header[HdrXFF][1])
        /\ (~NonEmpty(dIn, HdrXFF) /\ NonEmpty(dIn, HdrXRI)) =>
              IsFirstEntry(dOut.val, dIn.header[HdrXRI][1])

\* a list in X-Forwarded-For, X-Real-IP set too
C9_Witness ==
    /\ dOut = [fn |-> "getIPAddress", val |-> <<"1">>]
    /\ dIn.header[HdrXFF] = << <<"1", ",", "5">> >>
    /\ dIn.header[HdrXRI] = << <<"2", ",", "1">> >>

(***************************************************************************)
(* C10  With no forwarding header deciding, the derived IP of a remote     *)
(* address host:port is host, also when host contains colons (bracketed    *)
(* IPv6).                                                                  *)
(***************************************************************************)
C10_PortStripped ==
    (/\ dOut.fn = "getIPAddress"
     /\ ~NonEmpty(dIn, HdrXFF)
     /\ ~NonEmpty(dIn, HdrXRI)) =>
        dOut.val = BeforeLastColon(dIn.remoteAddr)

(***************************************************************************)
(* C11  As claimed: every request whose handling has completed has exactly *)
(* one diagnostic record.                                                  *)
(***************************************************************************)
C11_OneRecordPerRequest ==
    \A r \in Reqs : pc[r] = "done" => Len(diag[r]) = 1

(***************************************************************************)
(* C11  As amended: every request that passed the gate as enabled and      *)
(* whose handling has completed has exactly one diagnostic record, of its  *)
(* path, method, recorded status and duration, whatever its dispatch       *)
(* goroutine has done so far; before completion, and for a bypassed        *)
(* request, there is none.                                                 *)
(***************************************************************************)
C11_OneRecordPerEnabledRequest ==
    \A r \in Reqs :
        IF pc[r] = "done" /\ target[r] = "wrapper"
        THEN diag[r] = <<[path |-> req[r].path, method |-> req[r].method,
                          status |-> LastStatus(issued[r]),
                          duration_ms |-> duration[r]]>>
        ELSE diag[r] = <<>>

\* the record is there while the POST is still in flight
C11_Witness ==
    \E r \in Reqs :
        /\ pc[r] = "done"
        /\ disp[r].pc = "posting"
        /\ Len(diag[r]) = 1
        /\ diag[r][1].status = 404 /\ diag[r][1].duration_ms = 1

(***************************************************************************)
(* C12  A dispatch that ended after the collector answered: with status    *)
(* 200 (OK) or 204 (No Content) it is delivered and has logged nothing;    *)
(* with any other status (201 included) it has failed and has logged       *)
(* exactly one record, carrying that status and the response body as read. *)
(***************************************************************************)
C12_StatusDecides ==
    \A r \in Reqs :
        (disp[r].pc \in {"delivered", "failed"} /\ disp[r].status # 0) =>
            IF disp[r].status \in {200, 204}
            THEN disp[r].pc = "delivered" /\ dlog[r] = <<>>
            ELSE /\ disp[r].pc = "failed"
                 /\ dlog[r] = <<[msg |-> "Analytics request failed",
                                 status |-> disp[r].status,
                                 body |-> ReadAll(disp[r].resp)]>>

\* a 201 answer is logged as a failure, with its whole body
C12_Witness ==
    \E r \in Reqs :
        /\ disp[r].pc = "failed"
        /\ disp[r].status = 201
        /\ Len(dlog[r]) = 1
        /\ dlog[r][1].status = 201
        /\ dlog[r][1].body = <<"e", "r">>

(***************************************************************************)
(* C13  The phase of an enabled request: 0 Idle, 1 Capturing, 2 Event-     *)
(* Built, 3 Dispatch-Submitted, 4 terminal.  The event exists only once    *)
(* the downstream handler has returned, the dispatch task exists only once *)
(* the event does and carries that event, and every step leaves the phase  *)
(* where it is or moves it to the next one: none skipped, none revisited.  *)
(***************************************************************************)
PhaseOf(r) ==
    IF disp[r].pc \in {"delivered", "failed"} THEN 4
    ELSE IF disp[r].pc # "none" THEN 3
    ELSE IF event[r] # <<>> THEN 2
    ELSE IF Gated(r) THEN 1
    ELSE 0

C13_PhaseOrder ==
    /\ [](\A r \in Reqs :
            /\ event[r] # <<>> =>
                   /\ invoked[r] = 1
                   /\ pc[r] \in {"spawn", "log", "done"}
            /\ disp[r].pc # "none" =>
                   /\ event[r] # <<>>
                   /\ disp[r].event = event[r])
    /\ [][\A r \in Reqs :
            target[r]' # "orig" =>
                \/ PhaseOf(r)' = PhaseOf(r)
                \/ PhaseOf(r)' = PhaseOf(r) + 1]_vars

\* a request that went through every phase
C13_Witness ==
    \E r \in Reqs :
        /\ PhaseOf(r) = 4
        /\ disp[r].pc = "delivered"
        /\ pc[r] = "done"
        /\ target[r] = "wrapper"

(***************************************************************************)
(* C14  An enabled request has a dispatch task exactly when its serving    *)
(* path has passed the go statement, and the task is started once; a task  *)
(* sends at most one POST, and once it has ended (delivered, or failed at  *)
(* serialization, request construction, transport, timeout or status) its  *)
(* state and its POST count never change again: no retry, no re-queueing.  *)
(***************************************************************************)
Ended(r) == disp[r].pc \in {"delivered", "failed"}

C14_OneTaskOnePost ==
    /\ [](\A r \in Reqs :
            /\ posts[r] <= 1
            /\ (disp[r].pc # "none") <=>
                   (target[r] = "wrapper" /\ pc[r] \in {"log", "done"})
            /\ Ended(r) => Len(dlog[r]) <= 1)
    /\ [][\A r \in Reqs :
            /\ Ended(r) => (disp[r]' = disp[r] /\ posts[r]' = posts[r]
                              /\ dlog[r]' = dlog[r])
            /\ (disp[r]'.pc = "spawned" /\ disp[r].pc # "spawned") =>
                   disp[r].pc = "none"
            /\ posts[r]' # posts[r] =>
                   (disp[r].pc = "ready" /\ posts[r] = 0 /\ posts[r]' = 1)]_vars

\* the one POST failed in transport, the request is done, nothing more is sent
C14_Witness ==
    \E r \in Reqs :
        /\ pc[r] = "done"
        /\ disp[r].pc = "failed"
        /\ disp[r].status = 0
        /\ posts[r] = 1
        /\ dlog[r] = <<[msg |-> "Failed to send analytics data",
                        status |-> 0, body |-> <<>>]>>

(***************************************************************************)
(* C15  Every started dispatch task eventually ends, delivered or failed,  *)
(* when its goroutine is scheduled fairly: nothing is required of the      *)
(* serving path, which may be done, or of the request.                     *)
(***************************************************************************)
C15_DispatchEnds ==
    \A r \in Reqs : (disp[r].pc = "spawned") ~> Ended(r)

\* the client gave up on the collector after the request was done
C15_Witness ==
    \E r \in Reqs :
        /\ pc[r] = "done"
        /\ Ended(r)
        /\ posts[r] = 1
        /\ disp[r].status = 0
        /\ Len(dlog[r]) = 1

(***************************************************************************)
(* C16  As claimed: once the start time is captured, the next step of the  *)
(* request's serving path is the invocation of the downstream handler, at  *)
(* the same clock reading; and once the handler has returned, the next     *)
(* step computes the elapsed time.                                         *)
(***************************************************************************)
C16_TimerAroundInvocationOnly ==
    [][\A r \in Reqs :
          /\ (pc[r] = "wrap" /\ pc[r]' # "wrap") =>
                 (pc[r]' = "serving" /\ invoked[r]' = invoked[r] + 1)
          /\ (invoked[r]' = 1 /\ invoked[r] = 0 /\ target[r]' = "wrapper") =>
                 startTime[r] = now
          /\ (pc[r] = "elapsed" /\ pc[r]' # "elapsed") =>
                 (pc[r]' = "build" /\ duration[r]' = now - startTime[r])]_vars

(***************************************************************************)
(* C17  The bytes the downstream handler of an enabled request can read    *)
(* from r.Body are, in order, exactly the bytes that could be read from    *)
(* the inbound body (all of them, or those before the read failed), and    *)
(* the restored stream is read to its end without a failure.               *)
(***************************************************************************)
RECURSIVE ReadFrom(_, _)
ReadFrom(stream, i) ==
    IF i > Len(stream.data) \/ i - 1 = stream.failAt
    THEN <<>>
    ELSE <<stream.data[i]>> \o ReadFrom(stream, i + 1)

C17_BodyRestored ==
    \A r \in Reqs :
        (target[r] = "wrapper" /\ req[r].body.present) =>
            /\ rbody[r].present
            /\ rbody[r].failAt = -1
            /\ ReadFrom(rbody[r], 1) = ReadFrom(req[r].body, 1)

\* the inbound read failed after one byte; the handler is given that byte
C17_Witness ==
    \E r \in Reqs :
        /\ target[r] = "wrapper"
        /\ pc[r] = "serving"
        /\ req[r].body.present
        /\ req[r].body.failAt = 1
        /\ ReadFrom(rbody[r], 1) = <<"x">>

(***************************************************************************)
(* C18  As claimed: a dispatch task reads nothing but the event handed to  *)
(* it, and the configuration is written only while no request is being     *)
(* served and no dispatch task exists.                                     *)
(***************************************************************************)
ConfigWrittenOnlyAtRest ==
    a' # a => \A r \in Reqs : pc[r] \in {"off", "idle"} /\ disp[r].pc = "none"

Capture(r) == <<wrapper[r], startTime[r], duration[r], event[r]>>

C19_RequestScopedCapture ==
    /\ [](\A r \in Reqs :
            /\ wrapper[r].made =>
                   /\ wrapper[r].statusCode = LastStatus(issued[r])
                   /\ wrapper[r].body = ConcatWrites(issued[r])
            /\ event[r] # <<>> =>
                   /\ event[r][1].status_code = LastStatus(issued[r])
                   /\ event[r][1].response_time_ms = duration[r]
                   /\ event[r][1].path = req[r].path)
    /\ [][\A q \in Reqs :
            Capture(q)' # Capture(q) =>
                /\ pc[q]' # pc[q] \/ issued[q]' # issued[q]
                /\ \A r \in Reqs \ {q} :
                       pc[r]' = pc[r] /\ issued[r]' = issued[r]]_vars

\* the first request's event is built with its 404 while the second one,
\* which set 200 and wrote its own bytes, is still being served
C19_Witness ==
    /\ event["r1"] # <<>>
    /\ event["r1"][1].status_code = 404
    /\ wrapper["r1"].body = <<"a">>
    /\ pc["r2"] = "serving"
    /\ wrapper["r2"].statusCode = 200
    /\ wrapper["r2"].body = <<"b", "c">>
    /\ Len(issued["r2"]) = 2

(***************************************************************************)
(* C20  As claimed: the status_code of a request's event, and the status   *)
(* of its diagnostic record, equal the status the caller received from the *)
(* real sink, which is fixed by the first WriteHeader, or by the first     *)
(* Write when no WriteHeader came before it (200 when the handler made no  *)
(* call at all).                                                           *)
(***************************************************************************)
Received(s) == IF s.wroteHeader THEN s.status ELSE 200

C20_EventStatusIsReceivedStatus ==
    \A r \in Reqs :
        /\ event[r] # <<>> => event[r][1].status_code = Received(sink[r])
        /\ \A i \in 1..Len(diag[r]) : diag[r][i].status = Received(sink[r])

=============================================================================
